---- MODULE Spec2Model ----
(***************************************************************************)
(* The live voice session engine of NeuroNote (LiveTutorModal in           *)
(* src/components/Auth.tsx): the session controller (startSession,         *)
(* disconnect, the isOpen lifecycle effect, the retry buttons), the        *)
(* transport callbacks (onopen, onmessage, onclose, onerror) and the       *)
(* playback scheduling done in onmessage.                                  *)
(*                                                                         *)
(* Every `await` of the source is a suspension point: the code up to the   *)
(* await is one atomic step (JavaScript runs a task to its next await),    *)
(* the continuation is a separate action.  React state read inside         *)
(* startSession (`status`) is the value captured by the closure of the     *)
(* render that created the caller, so each call carries the captured       *)
(* status; refs (`xxxRef.current`) are read live.                          *)
(*                                                                         *)
(* Resources are named by the attempt that created them: attempt a owns    *)
(* input context a, output context a, microphone stream a and transport    *)
(* connection a; a ref holds an attempt number, 0 for null.                *)
(***************************************************************************)
EXTENDS Integers, Sequences, FiniteSets, Bags, TLC

\* ---------------------------------------------------------------- bounds

MaxAttempts == 3      \* startSession calls that get past the guard
EnvOpen == 5          \* environment events of a run with one user action
EnvStop == 4          \* ... of a run with two user actions
EnvReopen == 2        \* ... of a run with three user actions
EnvRetry == 1         \* ... of a run with four user actions
MaxDur == 2           \* longest decoded segment, in clock units
MaxFiles == 3         \* files offered to the upload input in a run
MaxToggles == 3       \* clicks on the audio overview button in a run
MaxQuestions == 3     \* questions of the longest quiz
MaxQuizOpens == 2     \* times a quiz is opened in a run
MaxCards == 3         \* flashcards of the longest list
MaxCardClicks == 4    \* clicks on the next / previous card buttons in a run
MaxBlocks == 2        \* capture blocks delivered in a run

\* createScriptProcessor(4096, 1, 1): frames per capture block
BufferSize == 4096
\* new AudioContextClass({ sampleRate: 16000 }): frames per second of the capture
InputSampleRate == 16000

Attempts == 1..MaxAttempts

\* What a run may take: user actions (open, close, retry) and environment
\* events (inbound messages, faults, clock ticks); the more of the first,
\* the fewer of the second.
Budgets == {[user |-> 1, env |-> EnvOpen], [user |-> 2, env |-> EnvStop],
            [user |-> 3, env |-> EnvReopen], [user |-> 4, env |-> EnvRetry]}

VARIABLES
  isOpen,                  \* prop isOpen
  status,                  \* useState status
  isSpeaking,              \* useState isSpeaking
  timer,                   \* pending setTimeout(startSession, 200) calls: the id
                           \* of each and the status its closure captured
  timeoutId,               \* timeoutId of the effect run whose cleanup runs
                           \* next; 0 for undefined
  isSessionActive,         \* isSessionActive.current
  streamRef,               \* streamRef.current
  inputAudioContextRef,    \* inputAudioContextRef.current
  outputAudioContextRef,   \* outputAudioContextRef.current
  sessionRef,              \* sessionRef.current (the session promise)
  nextStartTimeRef,        \* nextStartTimeRef.current
  sourcesRef,              \* sourcesRef.current: indexes into segs
  startPc,                 \* per attempt: "unused", "gum" (awaiting getUserMedia), "done"
  inCtx,                   \* per attempt: state of the input AudioContext
  outCtx,                  \* per attempt: state of the output AudioContext
  track,                   \* per attempt: the microphone track
  conn,                    \* per attempt: the transport connection
  prom,                    \* per attempt: the promise ai.live.connect returned
  disc,                    \* bag of suspended disconnect() calls
  handlers,                \* suspended onmessage handlers
  segs,                    \* every source.start() made so far
  now,                     \* ctx.currentTime of the output device
  speakTimers,             \* pending setTimeout(() => setIsSpeaking(false), 200)
  msgSeq,                  \* audio messages delivered so far
  userBudget,              \* user actions (open, close, retry) the run may still take
  envBudget,               \* inbound messages, faults and clock ticks it may still take
  stopWhile,               \* status at the last close, "none" after an open
  burst,                   \* attempts started since disconnect() was last called
  intrMark,                \* the last interrupt: chunks before it, sources it stopped
  proc,                    \* per input context: the attempt whose onopen wired a
                           \* ScriptProcessor to it, 0 for none
  captured,                \* onaudioprocess calls made with the session connected
  sent,                    \* ... of which reached session.sendRealtimeInput
  decodeErrs,              \* chunks whose decodeAudioData rejected
  errored                  \* attempt whose onerror ran while connected, with no
                           \* user action since; 0 for none

VARIABLES
  session,                 \* App: useState session, TRUE when signed in
  activeSubjectId,         \* App: useState activeSubjectId, 0 for null
  subjects,                \* App: useState subjects: the notes of the subject
  uploads,                 \* processFile / addNote calls that are suspended
  added,                   \* files whose addNote built a note and called setSubjects
  picked                   \* files handed to handleFileUpload so far

VARIABLES
  isAudioPlaying,          \* App: useState isAudioPlaying
  isLoading,               \* App: useState isLoading
  hasAudio,                \* the active subject has audioOverview.audioData
  audioContextRef,         \* audioContextRef.current: "none" for null, else its state
  audioSourceRef,          \* audioSourceRef.current: index into srcs, 0 for null
  srcs,                    \* every overview source started so far
  toggles,                 \* toggleAudio calls that are suspended
  clicks                   \* toggleAudio calls made so far

VARIABLES
  quizIsOpen,              \* QuizModal: prop isOpen (App's showQuiz)
  questions,               \* QuizModal: prop questions, as their correctAnswerIndex
  currentIndex,            \* QuizModal: useState currentIndex
  selectedOption,          \* QuizModal: useState selectedOption, -1 for null
  showResult,              \* QuizModal: useState showResult
  score,                   \* QuizModal: useState score
  isFinished,              \* QuizModal: useState isFinished
  crashed,                 \* QuizModal: its render threw
  quizOpens                \* quizzes opened so far

VARIABLES
  flashcards,              \* FlashcardReview: prop flashcards
  cardIndex,               \* FlashcardReview: useState currentIndex
  isFlipped,               \* FlashcardReview: useState isFlipped
  cardTimers,              \* FlashcardReview: pending setTimeout(setCurrentIndex, 200)
  cardClicks,              \* nextCard / prevCard calls made so far
  wraps                    \* history: the wraps the index has made

VARIABLES
  blockFrames,             \* ScriptProcessorNode: frames gathered for the next block
  sinceCallback,           \* ms since the block began
  lastPeriod,              \* ms the last delivered block took, 0 before the first
  blocks                   \* onaudioprocess calls made so far

ctlVars == <<status, isSpeaking, isSessionActive, streamRef, inputAudioContextRef,
             outputAudioContextRef, sessionRef, nextStartTimeRef, sourcesRef,
             inCtx, outCtx, track, conn, prom, disc, segs, burst>>
envVars == <<isOpen, timer, timeoutId, startPc, handlers, now, speakTimers, msgSeq, userBudget, envBudget,
             stopWhile, intrMark>>
capVars == <<proc, captured, sent>>
histVars == <<decodeErrs, errored>>
playerVars == <<isAudioPlaying, isLoading, hasAudio, audioContextRef,
                audioSourceRef, srcs, toggles, clicks>>
quizVars == <<quizIsOpen, questions, currentIndex, selectedOption, showResult,
              score, isFinished, crashed, quizOpens>>
cardVars == <<flashcards, cardIndex, isFlipped, cardTimers, cardClicks, wraps>>
captureVars == <<blockFrames, sinceCallback, lastPeriod, blocks>>
widgetVars == <<quizVars, cardVars, captureVars>>
appVars == <<session, activeSubjectId, subjects, uploads, added, picked,
             playerVars, widgetVars>>
vars == <<ctlVars, envVars, capVars, histVars, appVars>>

Max(a, b) == IF a >= b THEN a ELSE b
Min(a, b) == IF a <= b THEN a ELSE b

\* ------------------------------------------------- the controller's state

\* The state the controller's code mutates, as one record, so that the
\* synchronous parts of several calls compose within one step.
Ctl == [status |-> status, isSpeaking |-> isSpeaking,
        isSessionActive |-> isSessionActive, streamRef |-> streamRef,
        inputAudioContextRef |-> inputAudioContextRef,
        outputAudioContextRef |-> outputAudioContextRef,
        sessionRef |-> sessionRef, nextStartTimeRef |-> nextStartTimeRef,
        sourcesRef |-> sourcesRef, inCtx |-> inCtx, outCtx |-> outCtx,
        track |-> track, conn |-> conn, prom |-> prom, disc |-> disc,
        segs |-> segs, burst |-> burst]

Commit(r) ==
  /\ status' = r.status
  /\ isSpeaking' = r.isSpeaking
  /\ isSessionActive' = r.isSessionActive
  /\ streamRef' = r.streamRef
  /\ inputAudioContextRef' = r.inputAudioContextRef
  /\ outputAudioContextRef' = r.outputAudioContextRef
  /\ sessionRef' = r.sessionRef
  /\ nextStartTimeRef' = r.nextStartTimeRef
  /\ sourcesRef' = r.sourcesRef
  /\ inCtx' = r.inCtx
  /\ outCtx' = r.outCtx
  /\ track' = r.track
  /\ conn' = r.conn
  /\ prom' = r.prom
  /\ disc' = r.disc
  /\ segs' = r.segs
  /\ burst' = r.burst

\* ------------------------------------------------------------- playback

\* AudioBufferSourceNode.start(when) begins playing at `when`, or at once
\* when `when` is already past; stop() ends it.
Begin(s) == Max(s.start, s.at)
End(s) == IF s.stop = -1 THEN Begin(s) + s.dur
          ELSE Max(Begin(s), Min(Begin(s) + s.dur, s.stop))

\* sourcesRef.current.forEach(s => s.stop())
StopSources(r) ==
  [r EXCEPT !.segs = [i \in DOMAIN r.segs |->
      IF i \in r.sourcesRef /\ r.segs[i].stop = -1
      THEN [r.segs[i] EXCEPT !.stop = now] ELSE r.segs[i]]]

\* -------------------------------------------------------------- disconnect

DiscTask(pc, obj, nextStatus) == [pc |-> pc, obj |-> obj, next |-> nextStatus]
Suspend(r, t) == [r EXCEPT !.disc = @ (+) SetToBag({t})]

\* "5. Reset State"
DisconnectReset(r, nextStatus) ==
  [StopSources(r) EXCEPT !.status = nextStatus, !.isSpeaking = FALSE,
                         !.sourcesRef = {}, !.nextStartTimeRef = 0]

\* "4. Close Gemini Session", up to `await currentSession`
DisconnectSession(r, nextStatus) ==
  IF r.sessionRef # 0
  THEN Suspend([r EXCEPT !.sessionRef = 0],
               DiscTask("session", r.sessionRef, nextStatus))
  ELSE DisconnectReset(r, nextStatus)

\* "3. Safely Close Output Context", up to `await ...close()`
DisconnectOutput(r, nextStatus) ==
  LET c == r.outputAudioContextRef IN
  IF c = 0 THEN DisconnectSession(r, nextStatus)
  ELSE IF r.outCtx[c] # "closed"
       THEN Suspend(r, DiscTask("output", c, nextStatus))
       ELSE DisconnectSession([r EXCEPT !.outputAudioContextRef = 0], nextStatus)

\* "2. Safely Close Input Context", up to `await ...close()`
DisconnectInput(r, nextStatus) ==
  LET c == r.inputAudioContextRef IN
  IF c = 0 THEN DisconnectOutput(r, nextStatus)
  ELSE IF r.inCtx[c] # "closed"
       THEN Suspend(r, DiscTask("input", c, nextStatus))
       ELSE DisconnectOutput([r EXCEPT !.inputAudioContextRef = 0], nextStatus)

\* disconnect(nextStatus), run to its first await (or to its end)
disconnect(r, nextStatus) ==
  LET s == r.streamRef
      r1 == [r EXCEPT !.isSessionActive = FALSE,
                      !.track = IF s # 0 THEN [@ EXCEPT ![s] = "stopped"] ELSE @,
                      !.streamRef = 0,
                      !.burst = {}]
  IN DisconnectInput(r1, nextStatus)

\* the continuation after `await inputAudioContextRef.current.close()`
DisconnectAfterInputClose(t) ==
  /\ BagIn(t, disc) /\ t.pc = "input"
  /\ Commit(DisconnectOutput(
       [Ctl EXCEPT !.disc = @ (-) SetToBag({t}),
                   !.inCtx[t.obj] = "closed",
                   !.inputAudioContextRef = 0], t.next))
  /\ UNCHANGED <<isOpen, timer, timeoutId, startPc, handlers, now, speakTimers, msgSeq,
                 stopWhile, intrMark, userBudget,
                 envBudget,
                 capVars, histVars, appVars>>

\* the continuation after `await outputAudioContextRef.current.close()`
DisconnectAfterOutputClose(t) ==
  /\ BagIn(t, disc) /\ t.pc = "output"
  /\ Commit(DisconnectSession(
       [Ctl EXCEPT !.disc = @ (-) SetToBag({t}),
                   !.outCtx[t.obj] = "closed",
                   !.outputAudioContextRef = 0], t.next))
  /\ UNCHANGED <<isOpen, timer, timeoutId, startPc, handlers, now, speakTimers, msgSeq,
                 stopWhile, intrMark, userBudget,
                 envBudget,
                 capVars, histVars, appVars>>

\* the continuation after `await currentSession`: session.close(), then the
\* reset; a rejected promise is swallowed by the catch
DisconnectAfterSession(t) ==
  /\ BagIn(t, disc) /\ t.pc = "session"
  /\ prom[t.obj] \in {"resolved", "rejected"}
  /\ Commit(DisconnectReset(
       [Ctl EXCEPT !.disc = @ (-) SetToBag({t}),
                   !.conn[t.obj] = IF prom[t.obj] = "resolved" /\ @ = "open"
                                   THEN "closing" ELSE @], t.next))
  /\ UNCHANGED <<isOpen, timer, timeoutId, startPc, handlers, now, speakTimers, msgSeq,
                 stopWhile, intrMark, userBudget,
                 envBudget,
                 capVars, histVars, appVars>>

\* ------------------------------------------------------------ startSession

NextAttempt == Cardinality({a \in Attempts : startPc[a] # "unused"}) + 1

\* startSession() called from a closure that captured status `cap`, on the
\* controller state r, up to `await getUserMedia`
startSession(r, cap) ==
  IF r.sessionRef # 0 \/ cap \in {"connected", "connecting"}
  THEN Commit(r) /\ UNCHANGED <<startPc, envBudget>>
  ELSE \/ \* a constructor throws: the outer catch
          /\ envBudget > 0
          /\ envBudget' = envBudget - 1
          /\ Commit(disconnect([r EXCEPT !.status = "connecting"], "error"))
          /\ UNCHANGED startPc
       \/ \* the output context starts suspended (autoplay policy)
          /\ NextAttempt <= MaxAttempts
          /\ envBudget > 0
          /\ envBudget' = envBudget - 1
          /\ Commit([r EXCEPT !.status = "connecting",
                              !.inCtx[NextAttempt] = "running",
                              !.outCtx[NextAttempt] = "suspended",
                              !.inputAudioContextRef = NextAttempt,
                              !.outputAudioContextRef = NextAttempt,
                              !.burst = @ \cup {NextAttempt}])
          /\ startPc' = [startPc EXCEPT ![NextAttempt] = "gum"]
       \/ /\ NextAttempt <= MaxAttempts
          /\ UNCHANGED envBudget
          /\ Commit([r EXCEPT !.status = "connecting",
                              !.inCtx[NextAttempt] = "running",
                              !.outCtx[NextAttempt] = "running",
                              !.inputAudioContextRef = NextAttempt,
                              !.outputAudioContextRef = NextAttempt,
                              !.burst = @ \cup {NextAttempt}])
          /\ startPc' = [startPc EXCEPT ![NextAttempt] = "gum"]

\* getUserMedia resolves: the rest of startSession, through ai.live.connect
\* and `sessionRef.current = sessionPromise`
GumResolve(a) ==
  /\ startPc[a] = "gum"
  /\ startPc' = [startPc EXCEPT ![a] = "done"]
  /\ Commit([Ctl EXCEPT !.track[a] = "live", !.streamRef = a,
                        !.conn[a] = "pending", !.prom[a] = "pending",
                        !.sessionRef = a])
  /\ UNCHANGED <<isOpen, timer, timeoutId, handlers, now, speakTimers, msgSeq,
                 stopWhile, intrMark, userBudget,
                 envBudget,
                 capVars, histVars, appVars>>

\* getUserMedia rejects: await disconnect('permission-denied'); return
GumReject(a) ==
  /\ startPc[a] = "gum"
  /\ envBudget > 0
  /\ envBudget' = envBudget - 1
  /\ startPc' = [startPc EXCEPT ![a] = "done"]
  /\ Commit(disconnect(Ctl, "permission-denied"))
  /\ UNCHANGED <<isOpen, timer, timeoutId, handlers, now, speakTimers, msgSeq,
                 stopWhile, intrMark,
                 userBudget,
                 capVars, histVars, appVars>>

\* --------------------------------------------------- the lifecycle effect

\* a variant of clearTimeout that cancels nothing
clearTimeoutKeeps(ts, id) == ts

\* clearTimeout(timeoutId): the timeout with that id is no longer pending
clearTimeout(ts, id) == {t \in ts : t.id # id}

\* isOpen false -> true: the previous effect's cleanup (clearTimeout of an
\* undefined id, disconnect()), then timeoutId = setTimeout(() =>
\* startSession(), 200); the id is a number not used before
Open ==
  /\ ~isOpen /\ userBudget > 0
  /\ errored' = 0
  /\ isOpen' = TRUE
  /\ userBudget' = userBudget - 1
  /\ timer' = clearTimeout(timer, timeoutId)
                 \cup {[id |-> userBudget, cap |-> status]}
  /\ timeoutId' = userBudget
  /\ stopWhile' = "none"
  /\ Commit(disconnect(Ctl, "idle"))
  /\ UNCHANGED <<startPc, handlers, now, speakTimers, msgSeq, intrMark,
                 envBudget,
                 capVars, decodeErrs, appVars>>

\* isOpen true -> false: the cleanup (clearTimeout, disconnect()), then the
\* effect body's disconnect()
Close ==
  /\ isOpen /\ userBudget > 0
  /\ errored' = 0
  /\ isOpen' = FALSE
  /\ userBudget' = userBudget - 1
  /\ timer' = clearTimeout(timer, timeoutId)
  /\ timeoutId' = 0
  /\ stopWhile' = status
  /\ Commit(disconnect(disconnect(Ctl, "idle"), "idle"))
  /\ UNCHANGED <<startPc, handlers, now, speakTimers, msgSeq, intrMark,
                 envBudget,
                 capVars, decodeErrs, appVars>>

\* a 200 ms timer fires
TimerFire(t) ==
  /\ t \in timer
  /\ timer' = timer \ {t}
  /\ startSession(Ctl, t.cap)
  /\ UNCHANGED <<isOpen, timeoutId, handlers, now, speakTimers, msgSeq, stopWhile,
                 intrMark, userBudget,
                 capVars, histVars, appVars>>

\* "Retry Access" / "Retry Connection": setStatus('idle'); startSession()
Retry ==
  /\ isOpen /\ status \in {"error", "permission-denied"}
  /\ errored' = 0
  /\ userBudget > 0
  /\ userBudget' = userBudget - 1
  /\ startSession([Ctl EXCEPT !.status = "idle"], status)
  /\ UNCHANGED <<isOpen, timer, timeoutId, handlers, now, speakTimers, msgSeq,
                 stopWhile, intrMark,
                 capVars, decodeErrs, appVars>>

\* ------------------------------------------------------------ the transport

\* the connection opens: onopen, and the session promise resolves; onopen
\* wires a ScriptProcessor to the input context the ref holds, if it is open
ConnOpen(a) ==
  /\ conn[a] = "pending" /\ prom[a] = "pending"
  /\ Commit([Ctl EXCEPT !.conn[a] = "open", !.prom[a] = "resolved",
                        !.isSessionActive = TRUE, !.status = "connected"])
  /\ LET c == inputAudioContextRef
     IN proc' = IF c = 0 \/ inCtx[c] = "closed" THEN proc
                ELSE [proc EXCEPT ![c] = a]
  /\ UNCHANGED <<isOpen, timer, timeoutId, startPc, handlers, now, speakTimers, msgSeq,
                 stopWhile, intrMark, userBudget, envBudget, captured, sent,
                 histVars, appVars>>

\* a variant of onaudioprocess without its tests
CaptureAlways == TRUE

\* the two tests of onaudioprocess: `!sessionRef.current ||
\* !isSessionActive.current` and, in the then-callback, `!isSessionActive.current`
CaptureGuard == sessionRef # 0 /\ isSessionActive

\* onaudioprocess of the processor on input context c, with the then-callback
\* of the resolved session promise that follows it in the same task
Capture(c) ==
  /\ proc[c] # 0 /\ inCtx[c] = "running"
  /\ envBudget > 0
  /\ envBudget' = envBudget - 1
  /\ LET a == proc[c]
         connected == status = "connected" /\ conn[a] = "open"
     IN /\ captured' = IF connected THEN captured + 1 ELSE captured
        /\ sent' = IF connected /\ CaptureGuard /\ prom[a] = "resolved"
                   THEN sent + 1 ELSE sent
  /\ UNCHANGED <<ctlVars, isOpen, timer, timeoutId, startPc, handlers, now, speakTimers,
                 msgSeq, stopWhile, intrMark, userBudget, proc, histVars, appVars>>

\* ai.live.connect rejects: no callback runs
ConnReject(a) ==
  /\ conn[a] = "pending" /\ prom[a] = "pending"
  /\ envBudget > 0
  /\ envBudget' = envBudget - 1
  /\ Commit([Ctl EXCEPT !.conn[a] = "closed", !.prom[a] = "rejected"])
  /\ UNCHANGED <<isOpen, timer, timeoutId, startPc, handlers, now, speakTimers, msgSeq,
                 stopWhile, intrMark,
                 userBudget,
                 capVars, histVars, appVars>>

\* onerror
ConnError(a) ==
  /\ conn[a] \in {"pending", "open"}
  /\ errored' = IF status = "connected" /\ conn[a] = "open" THEN a ELSE errored
  /\ envBudget > 0
  /\ envBudget' = envBudget - 1
  /\ Commit(disconnect([Ctl EXCEPT !.conn[a] = "closing",
                                   !.isSessionActive = FALSE], "error"))
  /\ UNCHANGED <<isOpen, timer, timeoutId, startPc, handlers, now, speakTimers, msgSeq,
                 stopWhile, intrMark,
                 userBudget,
                 capVars, decodeErrs, appVars>>

\* onclose: the server closes an open connection, or a close() completes
ConnClose(a) ==
  /\ conn[a] \in {"open", "closing"}
  /\ conn[a] = "open" => envBudget > 0
  /\ envBudget' = IF conn[a] = "open" THEN envBudget - 1 ELSE envBudget
  /\ Commit([Ctl EXCEPT !.conn[a] = "closed", !.isSessionActive = FALSE,
                        !.sessionRef = 0])
  /\ UNCHANGED <<isOpen, timer, timeoutId, startPc, handlers, now, speakTimers, msgSeq,
                 stopWhile, intrMark,
                 userBudget,
                 capVars, histVars, appVars>>

Deliverable(a) == conn[a] \in {"open", "closing"} /\ prom[a] = "resolved"

\* onmessage with an audio part, up to its first await
OnMessageAudio(a) ==
  /\ Deliverable(a) /\ envBudget > 0
  /\ envBudget' = envBudget - 1
  /\ msgSeq' = msgSeq + 1
  /\ LET c == outputAudioContextRef
         h(pc) == [seq |-> msgSeq + 1, pc |-> pc, ctx |-> c, stale |-> FALSE]
     IN IF c = 0 \/ outCtx[c] = "closed"
        THEN Commit([Ctl EXCEPT !.isSpeaking = TRUE]) /\ UNCHANGED handlers
        ELSE IF outCtx[c] = "suspended"
        THEN /\ Commit([Ctl EXCEPT !.isSpeaking = TRUE])
             /\ handlers' = handlers \cup {h("resume")}
        ELSE /\ Commit([Ctl EXCEPT !.isSpeaking = TRUE,
                                   !.nextStartTimeRef = Max(@, now)])
             /\ handlers' = handlers \cup {h("decode")}
  /\ UNCHANGED <<isOpen, timer, timeoutId, startPc, now, speakTimers, stopWhile,
                 intrMark,
                 userBudget,
                 capVars, histVars, appVars>>

\* the continuation after `await ctx.resume()`, up to `await decodeAudioData`;
\* resume() of a context closed meanwhile rejects and the handler ends
ResumeDone(h) ==
  /\ h \in handlers /\ h.pc = "resume"
  /\ IF outCtx[h.ctx] = "closed"
     THEN Commit(Ctl) /\ handlers' = handlers \ {h}
     ELSE /\ Commit([Ctl EXCEPT !.outCtx[h.ctx] = "running",
                                !.nextStartTimeRef = Max(@, now)])
          /\ handlers' = (handlers \ {h}) \cup {[h EXCEPT !.pc = "decode"]}
  /\ UNCHANGED <<isOpen, timer, timeoutId, startPc, now, speakTimers, msgSeq,
                 stopWhile, intrMark, userBudget,
                 envBudget,
                 capVars, histVars, appVars>>

\* a variant of the scheduling that restarts the cursor at the segment's end
ScheduleRestartsCursor(r, h, d) ==
  [r EXCEPT !.segs = Append(@, [start |-> r.nextStartTimeRef, at |-> now,
                                dur |-> d, ctx |-> h.ctx, stop |-> -1,
                                ended |-> FALSE, seq |-> h.seq,
                                stale |-> h.stale]),
            !.nextStartTimeRef = d,
            !.sourcesRef = @ \cup {Len(r.segs) + 1}]

\* source.start(nextStartTimeRef.current); nextStartTimeRef.current +=
\* audioBuffer.duration; sourcesRef.current.add(source)
Schedule(r, h, d) ==
  [r EXCEPT !.segs = Append(@, [start |-> r.nextStartTimeRef, at |-> now,
                                dur |-> d, ctx |-> h.ctx, stop |-> -1,
                                ended |-> FALSE, seq |-> h.seq,
                                stale |-> h.stale]),
            !.nextStartTimeRef = @ + d,
            !.sourcesRef = @ \cup {Len(r.segs) + 1}]

\* the continuation after `await decodeAudioData(...)` resolved
DecodeDone(h, d) ==
  /\ h \in handlers /\ h.pc = "decode"
  /\ handlers' = handlers \ {h}
  /\ Commit(Schedule(Ctl, h, d))
  /\ UNCHANGED <<isOpen, timer, timeoutId, startPc, now, speakTimers, msgSeq,
                 stopWhile, intrMark, userBudget,
                 envBudget,
                 capVars, histVars, appVars>>

\* a variant of the catch that treats the decode error as a session error
DecodeErrorEndsSession(r) == disconnect(r, "error")

\* catch (decodeErr) { console.warn(...) }
DecodeError(r) == r

\* decodeAudioData rejected
DecodeFail(h) ==
  /\ h \in handlers /\ h.pc = "decode"
  /\ envBudget > 0
  /\ envBudget' = envBudget - 1
  /\ handlers' = handlers \ {h}
  /\ decodeErrs' = decodeErrs \cup {h.seq}
  /\ Commit(DecodeError(Ctl))
  /\ UNCHANGED <<isOpen, timer, timeoutId, startPc, now, speakTimers, msgSeq,
                 stopWhile, intrMark, userBudget, capVars, errored, appVars>>

\* a variant of the interrupted branch, without sourcesRef.current.clear()
InterruptKeepsSet(r) ==
  [StopSources(r) EXCEPT !.nextStartTimeRef = 0, !.isSpeaking = FALSE]

\* a variant of the interrupted branch that stops the sources and leaves
\* the set and the cursor as they are
InterruptStopsOnly(r) == [StopSources(r) EXCEPT !.isSpeaking = FALSE]

\* a variant of the interrupted branch that ends the session
InterruptEndsSession(r) == disconnect(r, "idle")

\* the interrupted branch of onmessage
Interrupt(r) ==
  [StopSources(r) EXCEPT !.sourcesRef = {}, !.nextStartTimeRef = 0,
                         !.isSpeaking = FALSE]

\* onmessage with serverContent.interrupted
OnMessageInterrupted(a) ==
  /\ Deliverable(a) /\ envBudget > 0
  /\ envBudget' = envBudget - 1
  /\ Commit(Interrupt(Ctl))
  /\ handlers' = {[h EXCEPT !.stale = TRUE] : h \in handlers}
  /\ intrMark' = [seq |-> msgSeq, stopped |-> Cardinality(sourcesRef)]
  /\ UNCHANGED <<isOpen, timer, timeoutId, startPc, now, speakTimers, msgSeq,
                 stopWhile,
                 userBudget,
                 capVars, histVars, appVars>>

\* the 'ended' listener of a source that finished or was stopped
Ended(i) ==
  /\ i \in DOMAIN segs /\ ~segs[i].ended
  /\ outCtx[segs[i].ctx] = "running"
  /\ segs[i].stop # -1 \/ now >= Begin(segs[i]) + segs[i].dur
  /\ Commit([Ctl EXCEPT !.segs[i].ended = TRUE, !.sourcesRef = @ \ {i}])
  /\ speakTimers' = IF sourcesRef \ {i} = {} THEN speakTimers + 1 ELSE speakTimers
  /\ UNCHANGED <<isOpen, timer, timeoutId, startPc, handlers, now, msgSeq, stopWhile,
                 intrMark, userBudget,
                 envBudget,
                 capVars, histVars, appVars>>

\* setTimeout(() => setIsSpeaking(false), 200) fires
SpeakTimerFire ==
  /\ speakTimers > 0
  /\ speakTimers' = speakTimers - 1
  /\ Commit([Ctl EXCEPT !.isSpeaking = FALSE])
  /\ UNCHANGED <<isOpen, timer, timeoutId, startPc, handlers, now, msgSeq, stopWhile,
                 intrMark, userBudget,
                 envBudget,
                 capVars, histVars, appVars>>

\* the output device clock advances
Tick ==
  /\ envBudget > 0
  /\ \E a \in Attempts : outCtx[a] = "running"
  /\ envBudget' = envBudget - 1
  /\ now' = now + 1
  /\ UNCHANGED <<ctlVars, isOpen, timer, timeoutId, startPc, handlers, speakTimers,
                 msgSeq, stopWhile, intrMark,
                 userBudget,
                 capVars, histVars, appVars>>

\* ------------------------------------------------- file upload (App)

Files == 1..MaxFiles
FileKinds == {"pptx", "pdf", "image", "text", "other"}

\* the NoteType processFile passes to addNote for a file of kind k
NoteTypeOf(k) == IF k = "pdf" THEN "PDF" ELSE IF k = "image" THEN "IMAGE" ELSE "TEXT"

\* addNote's update: subjects.map(s => s.id === activeSubjectId ? {...s,
\* notes: [...s.notes, newNote]} : s), over the `subjects` of the render
\* whose closure the call belongs to
addNote(closureSubjects, newNote) == Append(closureSubjects, newNote)

\* handleFileUpload with the files fs: processFile for each, up to its await
\* (extractTextFromPPTX, file.text()) or its FileReader; a file of no known
\* type gets an alert
handleFileUpload(fs, kind) ==
  /\ fs # {} /\ fs \cap picked = {}
  /\ picked' = picked \cup fs
  /\ uploads' = IF activeSubjectId = 0 THEN uploads
                ELSE uploads \cup
                     {[file |-> f, kind |-> kind[f], pc |-> "read",
                       subjects |-> subjects] : f \in {g \in fs : kind[g] # "other"}}
  /\ UNCHANGED <<session, activeSubjectId, subjects, added>>
  /\ UNCHANGED <<ctlVars, envVars, capVars, histVars, playerVars, widgetVars>>

\* the file has been read: addNote, up to `await addNoteToDb` when signed in
ReadDone(t) ==
  /\ t \in uploads /\ t.pc = "read"
  /\ subjects' = addNote(t.subjects, [file |-> t.file, type |-> NoteTypeOf(t.kind)])
  /\ added' = added \cup {t.file}
  /\ uploads' = IF session THEN (uploads \ {t}) \cup {[t EXCEPT !.pc = "db"]}
                ELSE uploads \ {t}
  /\ UNCHANGED <<session, activeSubjectId, picked>>
  /\ UNCHANGED <<ctlVars, envVars, capVars, histVars, playerVars, widgetVars>>

\* the read fails: the catch alerts (pptx, text), or onload never runs
ReadFail(t) ==
  /\ t \in uploads /\ t.pc = "read"
  /\ uploads' = uploads \ {t}
  /\ UNCHANGED <<session, activeSubjectId, subjects, added, picked>>
  /\ UNCHANGED <<ctlVars, envVars, capVars, histVars, playerVars, widgetVars>>

\* addNoteToDb settles: resolved, or rejected and caught with an alert
DbDone(t) ==
  /\ t \in uploads /\ t.pc = "db"
  /\ uploads' = uploads \ {t}
  /\ UNCHANGED <<session, activeSubjectId, subjects, added, picked>>
  /\ UNCHANGED <<ctlVars, envVars, capVars, histVars, playerVars, widgetVars>>

\* ------------------------------------------- audio overview player (App)

sessVars == <<ctlVars, envVars, capVars, histVars>>
uploadVars == <<uploads, added, picked>>

\* toggleAudio from `if (isAudioPlaying)` on, for the call t, up to its next
\* await; ts are the other suspended calls.  isAudioPlaying is the value of
\* the render whose closure the call belongs to (t.cap).
Proceed(t, ts) ==
  IF t.cap
  THEN /\ srcs' = [i \in DOMAIN srcs |->
                    IF i = audioSourceRef /\ srcs[i] = "playing"
                    THEN "stopped" ELSE srcs[i]]
       /\ isAudioPlaying' = FALSE
       /\ toggles' = ts
       /\ UNCHANGED <<audioContextRef, audioSourceRef>>
  ELSE /\ UNCHANGED <<srcs, isAudioPlaying, audioSourceRef>>
       /\ \E st \in {"suspended", "running"} :
            /\ audioContextRef # "none" => st = audioContextRef
            /\ audioContextRef' = st
            /\ toggles' = ts \cup {[t EXCEPT !.pc = IF st = "suspended"
                                                    THEN "resume" ELSE "decode"]}

\* a click on the overview button (disabled while isLoading): toggleAudio up
\* to its first await; without audio data, handleGenerateAudio up to its await
toggleAudio ==
  /\ ~isLoading /\ clicks < MaxToggles
  /\ clicks' = clicks + 1
  /\ LET t == [id |-> clicks + 1, pc |-> "gen", cap |-> isAudioPlaying]
     IN IF hasAudio
        THEN Proceed(t, toggles) /\ UNCHANGED <<isLoading, hasAudio>>
        ELSE IF activeSubjectId = 0 \/ subjects = <<>>
        THEN UNCHANGED <<isAudioPlaying, isLoading, hasAudio, audioContextRef,
                         audioSourceRef, srcs, toggles>>
        ELSE /\ isLoading' = TRUE
             /\ toggles' = toggles \cup {t}
             /\ UNCHANGED <<isAudioPlaying, hasAudio, audioContextRef,
                            audioSourceRef, srcs>>
  /\ UNCHANGED <<sessVars, session, activeSubjectId, subjects, uploadVars,
                 widgetVars>>

\* generateAudioOverview resolves: setSubjects with the audio; signed in,
\* `await updateSubjectArtifacts`; else the finally and the rest of toggleAudio
GenerateDone(t) ==
  /\ t \in toggles /\ t.pc = "gen"
  /\ hasAudio' = TRUE
  /\ IF session
     THEN /\ toggles' = (toggles \ {t}) \cup {[t EXCEPT !.pc = "save"]}
          /\ UNCHANGED <<isAudioPlaying, isLoading, audioContextRef,
                         audioSourceRef, srcs>>
     ELSE isLoading' = FALSE /\ Proceed(t, toggles \ {t})
  /\ UNCHANGED <<sessVars, session, activeSubjectId, subjects, uploadVars, clicks,
                 widgetVars>>

\* generateAudioOverview rejects: alert, return null, toggleAudio returns
GenerateFail(t) ==
  /\ t \in toggles /\ t.pc = "gen"
  /\ isLoading' = FALSE
  /\ toggles' = toggles \ {t}
  /\ UNCHANGED <<isAudioPlaying, hasAudio, audioContextRef, audioSourceRef, srcs>>
  /\ UNCHANGED <<sessVars, session, activeSubjectId, subjects, uploadVars, clicks,
                 widgetVars>>

\* updateSubjectArtifacts resolves: return audioData, the rest of toggleAudio
SaveDone(t) ==
  /\ t \in toggles /\ t.pc = "save"
  /\ isLoading' = FALSE
  /\ Proceed(t, toggles \ {t})
  /\ UNCHANGED hasAudio
  /\ UNCHANGED <<sessVars, session, activeSubjectId, subjects, uploadVars, clicks,
                 widgetVars>>

\* updateSubjectArtifacts rejects: alert, return null, toggleAudio returns
SaveFail(t) ==
  /\ t \in toggles /\ t.pc = "save"
  /\ isLoading' = FALSE
  /\ toggles' = toggles \ {t}
  /\ UNCHANGED <<isAudioPlaying, hasAudio, audioContextRef, audioSourceRef, srcs>>
  /\ UNCHANGED <<sessVars, session, activeSubjectId, subjects, uploadVars, clicks,
                 widgetVars>>

\* the continuation after `await ctx.resume()`, up to `await decodeAudioData`
PlayerResumed(t) ==
  /\ t \in toggles /\ t.pc = "resume"
  /\ audioContextRef' = "running"
  /\ toggles' = (toggles \ {t}) \cup {[t EXCEPT !.pc = "decode"]}
  /\ UNCHANGED <<isAudioPlaying, isLoading, hasAudio, audioSourceRef, srcs>>
  /\ UNCHANGED <<sessVars, session, activeSubjectId, subjects, uploadVars, clicks,
                 widgetVars>>

\* decodeAudioData resolves: source.start(); audioSourceRef.current =
\* source; setIsAudioPlaying(true)
PlayerDecoded(t) ==
  /\ t \in toggles /\ t.pc = "decode"
  /\ srcs' = Append(srcs, "playing")
  /\ audioSourceRef' = Len(srcs) + 1
  /\ isAudioPlaying' = TRUE
  /\ toggles' = toggles \ {t}
  /\ UNCHANGED <<isLoading, hasAudio, audioContextRef>>
  /\ UNCHANGED <<sessVars, session, activeSubjectId, subjects, uploadVars, clicks,
                 widgetVars>>

\* decodeAudioData rejects: the catch alerts
PlayerDecodeFail(t) ==
  /\ t \in toggles /\ t.pc = "decode"
  /\ toggles' = toggles \ {t}
  /\ UNCHANGED <<isAudioPlaying, isLoading, hasAudio, audioContextRef,
                 audioSourceRef, srcs>>
  /\ UNCHANGED <<sessVars, session, activeSubjectId, subjects, uploadVars, clicks,
                 widgetVars>>

\* source.onended, of a source that played to its end or was stopped
SourceEnded(i) ==
  /\ i \in DOMAIN srcs /\ srcs[i] \in {"playing", "stopped"}
  /\ srcs' = [srcs EXCEPT ![i] = "ended"]
  /\ isAudioPlaying' = FALSE
  /\ UNCHANGED <<isLoading, hasAudio, audioContextRef, audioSourceRef, toggles>>
  /\ UNCHANGED <<sessVars, session, activeSubjectId, subjects, uploadVars, clicks,
                 widgetVars>>

\* ----------------------------------------------------------- QuizModal

Options == {0, 1}

\* the quizzes a subject may hold: one to MaxQuestions questions, each with
\* its correctAnswerIndex
Quizzes == UNION {[1..n -> Options] : n \in 1..MaxQuestions}

\* the effect on [isOpen, questions]
QuizReset ==
  /\ currentIndex' = 0
  /\ score' = 0
  /\ isFinished' = FALSE
  /\ selectedOption' = -1
  /\ showResult' = FALSE

\* App: setActiveQuiz(q); setShowQuiz(true).  QuizModal renders with the new
\* props and its old state: the results view when isFinished, else
\* questions[currentIndex], whose fields the JSX reads; then the effect runs.
\* A render that throws commits nothing and runs no effect.
openQuiz(q) ==
  /\ ~quizIsOpen /\ ~crashed /\ quizOpens < MaxQuizOpens
  /\ quizOpens' = quizOpens + 1
  /\ quizIsOpen' = TRUE
  /\ questions' = q
  /\ IF ~isFinished /\ currentIndex >= Len(q)
     THEN /\ crashed' = TRUE
          /\ UNCHANGED <<currentIndex, selectedOption, showResult, score, isFinished>>
     ELSE QuizReset /\ UNCHANGED crashed
  /\ UNCHANGED <<sessVars, session, activeSubjectId, subjects, uploadVars,
                 playerVars, cardVars, captureVars>>

\* onClose: App's setShowQuiz(false); the state of QuizModal stays
onClose ==
  /\ quizIsOpen /\ ~crashed
  /\ quizIsOpen' = FALSE
  /\ UNCHANGED <<questions, currentIndex, selectedOption, showResult, score,
                 isFinished, crashed, quizOpens>>
  /\ UNCHANGED <<sessVars, session, activeSubjectId, subjects, uploadVars,
                 playerVars, cardVars, captureVars>>

\* handleAnswer(idx), from an option button of the question view
handleAnswer(idx) ==
  /\ quizIsOpen /\ ~crashed /\ ~isFinished
  /\ IF showResult
     THEN UNCHANGED <<selectedOption, showResult, score>>
     ELSE /\ selectedOption' = idx
          /\ showResult' = TRUE
          /\ score' = IF idx = questions[currentIndex + 1] THEN score + 1 ELSE score
  /\ UNCHANGED <<quizIsOpen, questions, currentIndex, isFinished, crashed, quizOpens>>
  /\ UNCHANGED <<sessVars, session, activeSubjectId, subjects, uploadVars,
                 playerVars, cardVars, captureVars>>

\* nextQuestion, from the button the question view shows with the result
nextQuestion ==
  /\ quizIsOpen /\ ~crashed /\ ~isFinished /\ showResult
  /\ IF currentIndex < Len(questions) - 1
     THEN /\ currentIndex' = currentIndex + 1
          /\ selectedOption' = -1
          /\ showResult' = FALSE
          /\ UNCHANGED isFinished
     ELSE /\ isFinished' = TRUE
          /\ UNCHANGED <<currentIndex, selectedOption, showResult>>
  /\ UNCHANGED <<quizIsOpen, questions, score, crashed, quizOpens>>
  /\ UNCHANGED <<sessVars, session, activeSubjectId, subjects, uploadVars,
                 playerVars, cardVars, captureVars>>

\* ------------------------------------------------------- FlashcardReview

\* the lists generateFlashcards may return, cards named by their position
CardLists == {[i \in 1..n |-> i] : n \in 1..MaxCards}

\* the % of JavaScript on numbers: the remainder has the sign of the dividend
JsRem(a, b) == IF a >= 0 THEN a % b ELSE 0 - ((0 - a) % b)

\* prev => (prev + 1) % flashcards.length
nextIndex(prev, len) == JsRem(prev + 1, len)

prevIndexNoLength(prev, len) == JsRem(prev - 1, len)

\* prev => (prev - 1 + flashcards.length) % flashcards.length
prevIndex(prev, len) == JsRem(prev - 1 + len, len)

\* handleGenerateFlashcards resolves: the empty view, the only one with the
\* Generate button, gives way to the cards; the state of the component stays
FlashcardsGenerated(cs) ==
  /\ flashcards = <<>>
  /\ flashcards' = cs
  /\ UNCHANGED <<cardIndex, isFlipped, cardTimers, cardClicks, wraps>>
  /\ UNCHANGED <<sessVars, session, activeSubjectId, subjects, uploadVars,
                 playerVars, quizVars, captureVars>>

\* setIsFlipped(false); setTimeout(update, 200), the update closing over the
\* length of the list of this render
CardClick(kind) ==
  /\ flashcards # <<>> /\ cardClicks < MaxCardClicks
  /\ cardClicks' = cardClicks + 1
  /\ isFlipped' = FALSE
  /\ cardTimers' = cardTimers \cup
       {[id |-> cardClicks + 1, kind |-> kind, len |-> Len(flashcards)]}
  /\ UNCHANGED <<flashcards, cardIndex, wraps>>
  /\ UNCHANGED <<sessVars, session, activeSubjectId, subjects, uploadVars,
                 playerVars, quizVars, captureVars>>

nextCard == CardClick("next")

prevCard == CardClick("prev")

\* a timeout of 200 ms expires, the oldest first: the functional update is
\* applied to the index of that moment
CardTimerFire(t) ==
  /\ t \in cardTimers
  /\ \A u \in cardTimers : t.id <= u.id
  /\ cardTimers' = cardTimers \ {t}
  /\ cardIndex' = IF t.kind = "next" THEN nextIndex(cardIndex, t.len)
                                      ELSE prevIndex(cardIndex, t.len)
  /\ wraps' = IF t.kind = "next" /\ cardIndex = t.len - 1 THEN wraps \cup {"toFirst"}
              ELSE IF t.kind = "prev" /\ cardIndex = 0 THEN wraps \cup {"toLast"}
              ELSE wraps
  /\ UNCHANGED <<flashcards, isFlipped, cardClicks>>
  /\ UNCHANGED <<sessVars, session, activeSubjectId, subjects, uploadVars,
                 playerVars, quizVars, captureVars>>

\* onClick={() => setIsFlipped(!isFlipped)}
flipCard ==
  /\ flashcards # <<>>
  /\ isFlipped' = ~isFlipped
  /\ UNCHANGED <<flashcards, cardIndex, cardTimers, cardClicks, wraps>>
  /\ UNCHANGED <<sessVars, session, activeSubjectId, subjects, uploadVars,
                 playerVars, quizVars, captureVars>>

\* ------------------------------------------------------- capture processor

framesPerMsHalved(rate) == rate \div 2000

\* frames a context of the given sample rate hands the processor in one ms
framesPerMs(rate) == rate \div 1000

\* one ms of microphone input reaches the processor of the input context
CaptureTick ==
  /\ blocks < MaxBlocks
  /\ blockFrames < BufferSize
  /\ blockFrames' = blockFrames + framesPerMs(InputSampleRate)
  /\ sinceCallback' = sinceCallback + 1
  /\ UNCHANGED <<lastPeriod, blocks>>
  /\ UNCHANGED <<sessVars, session, activeSubjectId, subjects, uploadVars,
                 playerVars, quizVars, cardVars>>

\* the block is full: processor.onaudioprocess is called with its frames
onaudioprocess ==
  /\ blockFrames >= BufferSize
  /\ blockFrames' = blockFrames - BufferSize
  /\ lastPeriod' = sinceCallback
  /\ sinceCallback' = 0
  /\ blocks' = blocks + 1
  /\ UNCHANGED <<sessVars, session, activeSubjectId, subjects, uploadVars,
                 playerVars, quizVars, cardVars>>

\* ------------------------------------------------------------ specification

\* the state after construction, but for the budgets
Start ==
  /\ isOpen = FALSE
  /\ status = "idle"
  /\ isSpeaking = FALSE
  /\ timer = {}
  /\ timeoutId = 0
  /\ isSessionActive = FALSE
  /\ streamRef = 0
  /\ inputAudioContextRef = 0
  /\ outputAudioContextRef = 0
  /\ sessionRef = 0
  /\ nextStartTimeRef = 0
  /\ sourcesRef = {}
  /\ startPc = [a \in Attempts |-> "unused"]
  /\ inCtx = [a \in Attempts |-> "none"]
  /\ outCtx = [a \in Attempts |-> "none"]
  /\ track = [a \in Attempts |-> "none"]
  /\ conn = [a \in Attempts |-> "none"]
  /\ prom = [a \in Attempts |-> "none"]
  /\ disc = EmptyBag
  /\ handlers = {}
  /\ segs = <<>>
  /\ now = 0
  /\ speakTimers = 0
  /\ msgSeq = 0
  /\ stopWhile = "none"
  /\ burst = {}
  /\ intrMark = [seq |-> 0, stopped |-> 0]
  /\ proc = [c \in Attempts |-> 0]
  /\ captured = 0
  /\ sent = 0
  /\ decodeErrs = {}
  /\ errored = 0

\* App after construction: not signed in, no subject
AppStart ==
  /\ session = FALSE
  /\ activeSubjectId = 0
  /\ subjects = <<>>
  /\ uploads = {}
  /\ added = {}
  /\ picked = {}

\* the audio overview player after construction
PlayerStart ==
  /\ isAudioPlaying = FALSE
  /\ isLoading = FALSE
  /\ hasAudio = FALSE
  /\ audioContextRef = "none"
  /\ audioSourceRef = 0
  /\ srcs = <<>>
  /\ toggles = {}
  /\ clicks = 0

\* QuizModal after construction, no quiz chosen
QuizStart ==
  /\ quizIsOpen = FALSE
  /\ questions = <<>>
  /\ currentIndex = 0
  /\ selectedOption = -1
  /\ showResult = FALSE
  /\ score = 0
  /\ isFinished = FALSE
  /\ crashed = FALSE
  /\ quizOpens = 0

\* FlashcardReview after construction, no flashcards generated
CardStart ==
  /\ flashcards = <<>>
  /\ cardIndex = 0
  /\ isFlipped = FALSE
  /\ cardTimers = {}
  /\ cardClicks = 0
  /\ wraps = {}

\* the capture processor as createScriptProcessor returns it
CaptureStart ==
  /\ blockFrames = 0
  /\ sinceCallback = 0
  /\ lastPeriod = 0
  /\ blocks = 0

Init ==
  /\ Start /\ AppStart /\ PlayerStart /\ QuizStart /\ CardStart
  /\ CaptureStart
  /\ \E b \in Budgets : userBudget = b.user /\ envBudget = b.env


Next ==
  \/ Open
  \/ Close
  \/ \E t \in timer : TimerFire(t)
  \/ Retry
  \/ \E a \in Attempts : GumResolve(a)
  \/ \E a \in Attempts : GumReject(a)
  \/ \E a \in Attempts : ConnOpen(a)
  \/ \E c \in Attempts : Capture(c)
  \/ \E a \in Attempts : ConnReject(a)
  \/ \E a \in Attempts : ConnError(a)
  \/ \E a \in Attempts : ConnClose(a)
  \/ \E a \in Attempts : OnMessageAudio(a)
  \/ \E a \in Attempts : OnMessageInterrupted(a)
  \/ \E h \in handlers : ResumeDone(h)
  \/ \E h \in handlers : \E d \in 1..MaxDur : DecodeDone(h, d)
  \/ \E h \in handlers : DecodeFail(h)
  \/ \E i \in DOMAIN segs : Ended(i)
  \/ SpeakTimerFire
  \/ Tick
  \/ \E t \in BagToSet(disc) : DisconnectAfterInputClose(t)
  \/ \E t \in BagToSet(disc) : DisconnectAfterOutputClose(t)
  \/ \E t \in BagToSet(disc) : DisconnectAfterSession(t)

Spec == Init /\ [][Next]_vars

\* The same program with what its scheduling guarantees: a timer that is
\* pending fires, an 'ended' event that is due is delivered, and an awaited
\* promise that can settle does (resume, decode, the closes of disconnect).
\* Nothing is assumed of the user, of the server or of the device clock.
LiveBudgets == {[user |-> 1, env |-> EnvOpen], [user |-> 2, env |-> EnvReopen]}

LiveInit ==
  /\ Start /\ AppStart /\ PlayerStart /\ QuizStart /\ CardStart
  /\ CaptureStart
  /\ \E b \in LiveBudgets : userBudget = b.user /\ envBudget = b.env

Fairness ==
  /\ WF_vars(\E t \in timer : TimerFire(t))
  /\ WF_vars(SpeakTimerFire)
  /\ WF_vars(\E i \in DOMAIN segs : Ended(i))
  /\ WF_vars(\E h \in handlers : ResumeDone(h))
  /\ WF_vars(\E h \in handlers :
               (\E d \in 1..MaxDur : DecodeDone(h, d)) \/ DecodeFail(h))
  /\ WF_vars(\E t \in BagToSet(disc) :
               \/ DisconnectAfterInputClose(t)
               \/ DisconnectAfterOutputClose(t)
               \/ DisconnectAfterSession(t))

LiveSpec == LiveInit /\ [][Next]_vars /\ Fairness

\* The file upload of App on its own, the voice session idle: signed in or
\* a guest, a subject selected or none, the subject empty or with one note.
UploadInit ==
  /\ Start /\ userBudget = 0 /\ envBudget = 0
  /\ session \in BOOLEAN
  /\ activeSubjectId \in {0, 1}
  /\ subjects \in {<<>>, <<[file |-> 0, type |-> "TEXT"]>>}
  /\ uploads = {}
  /\ added = {}
  /\ picked = {}
  /\ PlayerStart /\ QuizStart /\ CardStart
  /\ CaptureStart

UploadNext ==
  \/ \E fs \in SUBSET Files : \E kind \in [fs -> FileKinds] :
       handleFileUpload(fs, kind)
  \/ \E t \in uploads : ReadDone(t)
  \/ \E t \in uploads : ReadFail(t)
  \/ \E t \in uploads : DbDone(t)

UploadSpec == UploadInit /\ [][UploadNext]_vars

\* The audio overview player of App on its own: signed in or a guest, a
\* subject selected or none, with a note or without.
PlayerInit ==
  /\ Start /\ userBudget = 0 /\ envBudget = 0
  /\ session \in BOOLEAN
  /\ activeSubjectId \in {0, 1}
  /\ subjects \in {<<>>, <<[file |-> 0, type |-> "TEXT"]>>}
  /\ uploads = {} /\ added = {} /\ picked = {}
  /\ PlayerStart /\ QuizStart /\ CardStart
  /\ CaptureStart

PlayerNext ==
  \/ toggleAudio
  \/ \E t \in toggles : GenerateDone(t)
  \/ \E t \in toggles : GenerateFail(t)
  \/ \E t \in toggles : SaveDone(t)
  \/ \E t \in toggles : SaveFail(t)
  \/ \E t \in toggles : PlayerResumed(t)
  \/ \E t \in toggles : PlayerDecoded(t)
  \/ \E t \in toggles : PlayerDecodeFail(t)
  \/ \E i \in DOMAIN srcs : SourceEnded(i)

PlayerSpec == PlayerInit /\ [][PlayerNext]_vars

\* QuizModal on its own, mounted in the view of a subject
QuizInit ==
  /\ Start /\ userBudget = 0 /\ envBudget = 0
  /\ AppStart /\ PlayerStart /\ QuizStart /\ CardStart
  /\ CaptureStart

QuizNext ==
  \/ \E q \in Quizzes : openQuiz(q)
  \/ onClose
  \/ \E idx \in Options : handleAnswer(idx)
  \/ nextQuestion

QuizSpec == QuizInit /\ [][QuizNext]_vars

\* FlashcardReview on its own, mounted in the flashcards tab of a subject
CardInit ==
  /\ Start /\ userBudget = 0 /\ envBudget = 0
  /\ AppStart /\ PlayerStart /\ QuizStart /\ CardStart
  /\ CaptureStart

CardNext ==
  \/ \E cs \in CardLists : FlashcardsGenerated(cs)
  \/ nextCard
  \/ prevCard
  \/ \E t \in cardTimers : CardTimerFire(t)
  \/ flipCard

CardSpec == CardInit /\ [][CardNext]_vars

\* the capture processor on its own, from the moment it is connected
CaptureInit ==
  /\ Start /\ userBudget = 0 /\ envBudget = 0
  /\ AppStart /\ PlayerStart /\ QuizStart /\ CardStart
  /\ CaptureStart

CaptureNext ==
  \/ CaptureTick
  \/ onaudioprocess

CaptureSpec == CaptureInit /\ [][CaptureNext]_vars

\* ------------------------------------------------------------- properties

\* C1: the scheduler never has two segments of one output device whose
\* playing intervals overlap: a segment scheduled earlier has finished (or
\* was stopped) by the time a later one begins.
NoOverlap ==
  \A i, j \in DOMAIN segs :
    (i < j /\ segs[i].ctx = segs[j].ctx) => End(segs[i]) <= Begin(segs[j])

\* C8: handling an inbound {interrupted} leaves the in-flight set empty,
\* however many segments were playing or pending.
InterruptEmptiesSet ==
  [][(\E a \in Attempts : OnMessageInterrupted(a)) => sourcesRef' = {}]_vars

\* an interrupt found segments in flight and a chunk still being decoded,
\* and the set is empty
InterruptEmptiedSet ==
  /\ intrMark.stopped >= 1
  /\ \E h \in handlers : h.stale
  /\ sourcesRef = {}

\* C9: an {interrupted} that arrives while two segments are in flight stops
\* both and clears isSpeaking, and the first chunk that arrives after it is
\* scheduled at the device clock's time, not behind an older cursor.
InterruptRestartsAtNow ==
  /\ [][\A a \in Attempts :
         (OnMessageInterrupted(a) /\ Cardinality(sourcesRef) = 2)
           => /\ \A i \in sourcesRef : segs'[i].stop = now
              /\ ~isSpeaking']_vars
  /\ [](\A i \in DOMAIN segs :
         (intrMark.stopped = 2 /\ segs[i].seq = intrMark.seq + 1)
           => Begin(segs[i]) = segs[i].at)

\* C10: a chunk whose handling began before an interrupt is not scheduled
\* after that interrupt.
NoStaleSchedule == \A i \in DOMAIN segs : ~segs[i].stale

\* C2: two start() calls in immediate succession, with no stop between them,
\* acquire one set of device handles: at most one attempt gets past the
\* guard and creates contexts.
OneSetOfHandles == Cardinality(burst) <= 1

\* a callback of the transport runs
TransportEvent ==
  \E a \in Attempts :
    \/ ConnOpen(a)
    \/ ConnError(a)
    \/ ConnClose(a)
    \/ OnMessageAudio(a)
    \/ OnMessageInterrupted(a)

\* stop() was called and every disconnect() has run to its end
StopReturned == ~isOpen /\ disc = EmptyBag

\* C3: after a stop() made while connecting has returned, no transport
\* event changes the status; the status never becomes connected.
StopCancelsConnect ==
  [][(StopReturned /\ stopWhile = "connecting" /\ TransportEvent)
       => status' = status]_vars

\* C4: stop() does not wait for a pending connect: no disconnect() made by
\* a stop is suspended on a session promise that is still pending.
StopNeverWaitsForConnect ==
  \A t \in BagToSet(disc) :
    (t.next = "idle" /\ t.pc = "session") => prom[t.obj] # "pending"

\* C5: once stop() has completed and no start() follows, the controller
\* holds no capture stream, no audio context and no transport handle.
NoHandleAfterStop ==
  StopReturned => /\ streamRef = 0
                  /\ inputAudioContextRef = 0
                  /\ outputAudioContextRef = 0
                  /\ sessionRef = 0

\* C6: when the stored connect promise has rejected and nothing is left
\* running, the status is error and the attempt's microphone is released.
ConnectRejectIsError ==
  \A a \in Attempts :
    (prom[a] = "rejected" /\ sessionRef = a /\ disc = EmptyBag)
      => (status = "error" /\ track[a] # "live")

\* C7: the teardown of a stop() stops the microphone before it closes the
\* transport, and the transport is closed before the output context is.
TeardownOrder ==
  [][\A t \in BagToSet(disc) :
       t.next = "idle" =>
         /\ DisconnectAfterSession(t) => track[t.obj] # "live"
         /\ DisconnectAfterOutputClose(t)
              => conn[t.obj] \in {"none", "closed"}]_vars

\* a step of onmessage that handles an audio chunk
EnqueueStep ==
  \/ \E a \in Attempts : OnMessageAudio(a)
  \/ \E h \in handlers : ResumeDone(h)
  \/ \E h \in handlers : \E d \in 1..MaxDur : DecodeDone(h, d)

\* a step that ran the reset at the end of disconnect()
TeardownReset ==
  /\ status' \in {"idle", "error", "permission-denied"}
  /\ nextStartTimeRef' = 0 /\ sourcesRef' = {} /\ ~isSpeaking'

\* C11: the cursor never decreases across enqueues; it decreases only by
\* the reset of an interruption or of a teardown.
CursorMonotonic ==
  [][/\ EnqueueStep => nextStartTimeRef' >= nextStartTimeRef
     /\ nextStartTimeRef' < nextStartTimeRef
          => ((\E a \in Attempts : OnMessageInterrupted(a)) \/ TeardownReset)]_vars

\* two segments were enqueued in a connected session, the later one after
\* the clock advanced, and the cursor stands behind both
CursorAdvanced ==
  /\ status = "connected" /\ Len(segs) >= 2
  /\ \E i \in DOMAIN segs : segs[i].start > 0 /\ segs[i].at > 0
  /\ \A i \in DOMAIN segs : nextStartTimeRef >= segs[i].start + segs[i].dur

\* C12: three capture chunks delivered while connected give three calls of
\* send, also when a delivery falls between the request of a stop and the
\* end of its teardown.
SendPerChunk == captured = 3 => sent = 3

\* C13: a capture chunk that arrives after teardown has begun, or after the
\* connection was closed, changes nothing: no status change, no send.
LateSendIsNoOp ==
  [][\A c \in Attempts :
       (Capture(c) /\ (~isSessionActive \/ conn[proc[c]] # "open"))
         => (UNCHANGED ctlVars /\ sent' = sent)]_vars

\* a chunk was delivered while the status was still connected and the
\* connection open, after disconnect() had begun, and was not sent
LateChunkDropped == captured > sent /\ ~isSessionActive /\ disc # EmptyBag

\* C14: at every moment at most one transport connection of the controller
\* is pending or open.
OneConnection ==
  Cardinality({a \in Attempts : conn[a] \in {"pending", "open"}}) <= 1

\* C15: startSession called while the status is connected changes nothing:
\* no context, no stream, no connection, the same status, cursor and
\* in-flight set.
StartWhileConnectedIsNoOp ==
  [][(((\E t \in timer : TimerFire(t)) \/ Retry) /\ status = "connected")
       => UNCHANGED <<ctlVars, startPc>>]_vars

\* attempt a's getUserMedia was refused
Refused(a) == startPc[a] = "done" /\ track[a] = "none"

\* C16: when getUserMedia is refused, no connection is opened for the
\* attempt, the teardown it starts ends in permission-denied, and once no
\* teardown is running its two audio contexts are closed.
PermissionDeniedReleases ==
  /\ [](\A a \in Attempts :
         Refused(a) => /\ conn[a] = "none"
                       /\ disc = EmptyBag
                            => inCtx[a] = "closed" /\ outCtx[a] = "closed")
  /\ [][\A a \in Attempts :
         (GumReject(a) /\ disc' = EmptyBag) => status' = "permission-denied"]_vars

\* C17: after onerror on a connected session, in a run without a stop, with
\* no user action since and no teardown running, the status is error and
\* everything is released: the stream, both contexts, the connection, the
\* refs, the in-flight set.
ErrorTearsDown ==
  \A a \in Attempts :
    (errored = a /\ stopWhile = "none" /\ disc = EmptyBag)
      => /\ status = "error"
         /\ track[a] = "stopped"
         /\ inCtx[a] = "closed" /\ outCtx[a] = "closed"
         /\ conn[a] \notin {"pending", "open"}
         /\ streamRef = 0 /\ sessionRef = 0
         /\ inputAudioContextRef = 0 /\ outputAudioContextRef = 0
         /\ sourcesRef = {}

\* a step of a stop or of an explicit start: the lifecycle effect, its timer,
\* a retry button, or the continuation of a disconnect() made by a stop
UserStep ==
  \/ Open \/ Close \/ (\E t \in timer : TimerFire(t)) \/ Retry
  \/ \E t \in BagToSet(disc) :
       /\ t.next = "idle"
       /\ \/ DisconnectAfterInputClose(t)
          \/ DisconnectAfterOutputClose(t)
          \/ DisconnectAfterSession(t)

\* C18: error and permission-denied are left only by an explicit start or
\* stop.
TerminalUntilRetry ==
  [][(status \in {"error", "permission-denied"} /\ status' # status)
       => UserStep]_vars

\* C19: a chunk whose decode fails is dropped and nothing else happens: the
\* status, the connection, the in-flight set and the scheduled segments stay
\* as they are, and no segment is ever scheduled for that chunk.
DecodeFailureDropsChunk ==
  /\ [][\A h \in handlers :
         DecodeFail(h) => UNCHANGED <<status, conn, sourcesRef, segs>>]_vars
  /\ [](\A i \in DOMAIN segs : segs[i].seq \notin decodeErrs)

\* a chunk failed to decode in a session that is still connected and a chunk
\* that arrived after it is in flight
LaterChunkScheduled ==
  /\ status = "connected"
  /\ \E i \in sourcesRef : \E q \in decodeErrs : segs[i].seq > q

\* C20: isSpeaking goes from true to false only with the in-flight set
\* empty: when it has drained, or by an interrupt or teardown that empties it.
AudibleUntilDrained ==
  [][(isSpeaking /\ ~isSpeaking') => sourcesRef' = {}]_vars

\* C21: segments are scheduled in the order their chunks were delivered: of
\* two chunks of one output device, the one delivered first does not get the
\* later start time, whatever the order in which the handlers resume.
ScheduledInDeliveryOrder ==
  \A i, j \in DOMAIN segs :
    (segs[i].seq < segs[j].seq /\ segs[i].ctx = segs[j].ctx
       /\ intrMark.seq = 0 /\ stopWhile = "none")
      => segs[i].start <= segs[j].start

\* C22: an enqueue that succeeds starts its segment at max(cursor, device
\* clock), moves the cursor to that start plus the segment's duration and
\* adds the segment to the in-flight set; a segment that plays to its end
\* leaves the set.
EnqueueSchedulesAtMax ==
  /\ [][\A h \in handlers : \A d \in 1..MaxDur :
         DecodeDone(h, d)
           => LET n == Len(segs) + 1
                  startTime == Max(nextStartTimeRef, now)
              IN /\ segs'[n].start = startTime
                 /\ nextStartTimeRef' = startTime + d
                 /\ n \in sourcesRef']_vars
  /\ [][\A i \in DOMAIN segs :
         (Ended(i) /\ segs[i].stop = -1) => i \notin sourcesRef']_vars

\* C23: a segment leaves the in-flight set once: after it has left, it is
\* never a member again; an 'ended' event that comes after the interrupt
\* removed the segment, and an interrupt that comes after the segment
\* finished, leave the set (and the segment) as they are; a stopped segment
\* is never in the set.
RemovedOnce ==
  /\ [][\A i \in DOMAIN segs : i \notin sourcesRef => i \notin sourcesRef']_vars
  /\ [][\A i \in DOMAIN segs :
         (Ended(i) /\ i \notin sourcesRef)
           => (sourcesRef' = sourcesRef /\ segs'[i].stop = segs[i].stop)]_vars
  /\ [][\A a \in Attempts : \A i \in DOMAIN segs :
         (OnMessageInterrupted(a) /\ i \notin sourcesRef)
           => segs'[i] = segs[i]]_vars
  /\ [](\A i \in DOMAIN segs : segs[i].stop # -1 => i \notin sourcesRef)

\* in a connected session an interrupt stopped a segment whose 'ended' event
\* came afterwards, and a segment that had finished before the interrupt was
\* left alone
RemovedByBoth ==
  /\ status = "connected" /\ intrMark.stopped = 1 /\ Len(segs) = 2
  /\ \A i \in DOMAIN segs : segs[i].seq <= intrMark.seq /\ ~segs[i].stale
  /\ \E i \in DOMAIN segs : segs[i].stop # -1 /\ segs[i].ended
  /\ \E i \in DOMAIN segs : segs[i].stop = -1 /\ segs[i].ended

\* C24: an inbound {interrupted} handled while connected leaves the status
\* connected and leaves the capture stream, the audio contexts and the
\* transport as they are.
InterruptKeepsSession ==
  [][\A a \in Attempts :
       (OnMessageInterrupted(a) /\ status = "connected")
         => /\ status' = "connected"
            /\ UNCHANGED <<streamRef, inputAudioContextRef,
                           outputAudioContextRef, sessionRef, isSessionActive,
                           inCtx, outCtx, track, conn, prom, disc>>]_vars

\* an interrupt stopped two segments and the session is connected as before:
\* microphone live, output context running, connection open
InterruptedWhileConnected ==
  /\ status = "connected" /\ intrMark.stopped = 2 /\ ~isSpeaking
  /\ streamRef # 0 /\ sessionRef # 0 /\ outputAudioContextRef # 0
  /\ track[streamRef] = "live" /\ conn[sessionRef] = "open"
  /\ outCtx[outputAudioContextRef] = "running"

\* C26: whenever the status is connected and no teardown is running, the
\* controller holds an open connection and open audio contexts: sessionRef
\* is set and its connection is open, and both context refs are set to
\* contexts that are not closed.
ConnectedHasSession ==
  (status = "connected" /\ disc = EmptyBag)
    => /\ sessionRef # 0 /\ conn[sessionRef] = "open"
       /\ inputAudioContextRef # 0 /\ inCtx[inputAudioContextRef] # "closed"
       /\ outputAudioContextRef # 0 /\ outCtx[outputAudioContextRef] # "closed"

\* a suspended disconnect() resumes
TeardownResumes ==
  \E t \in BagToSet(disc) :
    \/ DisconnectAfterInputClose(t)
    \/ DisconnectAfterOutputClose(t)
    \/ DisconnectAfterSession(t)

\* C27: a disconnect() that was suspended when a new attempt started does
\* not touch what the attempt acquired: when it resumes, the attempt's
\* contexts, stream and connection, the refs that hold them, its sources,
\* the cursor and the status stay as they are.  (An attempt in burst started
\* after the last call of disconnect(), so every suspended call is older.)
StaleTeardownSparesNewAttempt ==
  [][\A a \in burst :
       TeardownResumes
         => /\ inCtx'[a] = inCtx[a] /\ outCtx'[a] = outCtx[a]
            /\ track'[a] = track[a] /\ conn'[a] = conn[a]
            /\ inputAudioContextRef = a => inputAudioContextRef' = a
            /\ outputAudioContextRef = a => outputAudioContextRef' = a
            /\ streamRef = a => streamRef' = a
            /\ sessionRef = a => sessionRef' = a
            /\ \A i \in sourcesRef :
                 segs[i].ctx = a => (i \in sourcesRef' /\ segs'[i] = segs[i])
            /\ nextStartTimeRef' = nextStartTimeRef
            /\ status' = status]_vars

\* C28: when onerror runs on the connected session after a stop() was
\* requested and before its teardown has finished, then once both teardowns
\* have run to their end the status is idle and everything is released.
StopAndErrorEndIdle ==
  (~isOpen /\ stopWhile = "connected" /\ errored # 0 /\ disc = EmptyBag)
    => /\ status = "idle"
       /\ track[errored] = "stopped"
       /\ inCtx[errored] = "closed" /\ outCtx[errored] = "closed"
       /\ conn[errored] \notin {"pending", "open"}
       /\ streamRef = 0 /\ sessionRef = 0
       /\ inputAudioContextRef = 0 /\ outputAudioContextRef = 0
       /\ sourcesRef = {}

\* C25: open requests are coalesced: at most one start is pending, it is the
\* one of the last open signal and the panel is open (every earlier one was
\* cancelled), and the start a timer makes begins at most one attempt.
StartsCoalesced ==
  /\ [](Cardinality(timer) <= 1)
  /\ [](\A t \in timer : isOpen /\ t.id = timeoutId)
  /\ [][\A t \in timer : TimerFire(t) => NextAttempt' <= NextAttempt + 1]_vars

\* open, close and open within the window, then the timer of the second
\* open fired: one attempt, connecting, and nothing else has happened
RapidToggleOneAttempt ==
  /\ isOpen /\ timer = {} /\ timeoutId = 1
  /\ userBudget = 0 /\ envBudget = EnvReopen /\ now = 0
  /\ startPc[1] = "gum" /\ startPc[2] = "unused"
  /\ status = "connecting" /\ outCtx[1] = "running" /\ disc = EmptyBag

\* C29: isSpeaking does not stay true: from a state of a connected session
\* where it is true with every segment finished and no chunk being handled,
\* it becomes false (or the session ends, or the run has no event left).
SpeakingEnds ==
  (isSpeaking /\ sourcesRef = {} /\ handlers = {}
     /\ status = "connected" /\ envBudget > 0)
    ~> (~isSpeaking \/ status # "connected" \/ envBudget = 0)

\* C30: once every processFile / addNote call of an upload has completed,
\* the subject's note list holds a note for every file whose addNote ran.
NoNoteLost ==
  uploads = {}
    => \A f \in added : \E i \in DOMAIN subjects : subjects[i].file = f

\* C31: at most one overview source is playing, it is the one
\* audioSourceRef holds, isAudioPlaying is true exactly when a source is
\* playing, and a toggle made while playing leaves no source playing.
OneOverviewSource ==
  /\ [](/\ Cardinality({i \in DOMAIN srcs : srcs[i] = "playing"}) <= 1
        /\ \A i \in DOMAIN srcs : srcs[i] = "playing" => audioSourceRef = i
        /\ isAudioPlaying <=> (\E i \in DOMAIN srcs : srcs[i] = "playing"))
  /\ [][(toggleAudio /\ hasAudio /\ isAudioPlaying)
          => \A i \in DOMAIN srcs : srcs'[i] # "playing"]_vars

\* C32: while the quiz is shown, the score exceeds neither currentIndex + 1
\* nor the number of questions and currentIndex is an index of questions;
\* isFinished becomes true only at the last question.
QuizScoredOnce ==
  /\ [](quizIsOpen
          => /\ score <= currentIndex + 1
             /\ score <= Len(questions)
             /\ currentIndex \in 0..(Len(questions) - 1))
  /\ [][(~isFinished /\ isFinished') => currentIndex = Len(questions) - 1]_vars

\* C33: with a non-empty list of flashcards the index stays an index of the
\* list, whatever updates are pending, and each update moves it by one card,
\* from the last card to the first and from the first to the last.
CardIndexWraps ==
  /\ [](flashcards # <<>> => cardIndex \in 0..(Len(flashcards) - 1))
  /\ [][\A t \in cardTimers : CardTimerFire(t) =>
          cardIndex' = IF t.kind = "next"
                       THEN (IF cardIndex = Len(flashcards) - 1 THEN 0
                             ELSE cardIndex + 1)
                       ELSE (IF cardIndex = 0 THEN Len(flashcards) - 1
                             ELSE cardIndex - 1)]_vars

\* C33 witness: the longest list, the index has wrapped both ways and is on
\* the first card with two updates still pending
WrappedBothWays ==
  /\ Len(flashcards) = MaxCards
  /\ wraps = {"toFirst", "toLast"}
  /\ cardIndex = 0
  /\ Cardinality(cardTimers) = 2

\* C34: a capture block never takes more than 300 ms to fill, and every
\* delivered block of 4096 frames at 16000 Hz took 256 ms.
CapturePeriodBounded ==
  /\ sinceCallback <= 300
  /\ lastPeriod <= 300
  /\ blocks > 0 => lastPeriod = 256

\* C34 witness: the second block has just been delivered
SecondBlockDelivered ==
  /\ blocks = 2
  /\ blockFrames = 0
  /\ sinceCallback = 0
  /\ lastPeriod = 256

====
